---- MODULE Spec2Model ----
(***************************************************************************)
(* A model of export_to_json (src/export_to_web.py): one export run reads  *)
(* the concerts, setlists, artists and venues collections and writes the   *)
(* JSON files of the static website into the output directory.             *)
(*                                                                         *)
(* Python values are modelled as follows.                                  *)
(*   - a document (dict) is a record; a key the document does not have is  *)
(*     a field outside its DOMAIN, read with Get (dict.get);               *)
(*   - None is NoneStr in a string-valued field and NoneInt in an          *)
(*     integer-valued field;                                               *)
(*   - a date is the sequence of its characters, so that date_str[:4] and  *)
(*     int() are computed as Python computes them;                         *)
(*   - a dict that is iterated (insertion-ordered) is a sequence of        *)
(*     [k, v] pairs with distinct keys;                                    *)
(*   - a file is the sequence of the JSON documents written to it.         *)
(* Fields that are only copied through (show_number, festival_name, city,  *)
(* state, venue name, setlistfm_url, cover_artist, guest_artist,           *)
(* setlist_status, photos) are left out of the documents.                  *)
(***************************************************************************)
EXTENDS Integers, Sequences, FiniteSets, TLC

VARIABLES
    db,        \* the source collections (Firestore), in stream order
    disk,      \* the output directory: one function name -> file per directory
    pc,        \* position of the current run in export_to_json
    mem,       \* the local variables of export_to_json
    runs,      \* number of runs started so far (also the wall clock)
    changes,   \* number of changes made to source and directory between runs
    startDisk, \* history: the output directory when the current run started
    lastDone,  \* history: the output directory when the previous run completed
    change     \* history: what changed between the previous run and this one

vars == <<db, disk, pc, mem, runs, changes, startDisk, lastDone, change>>

---------------------------------------------------------------------------
(* Bounds *)

MaxRuns == 2

MaxChanges == 1

---------------------------------------------------------------------------
(* Python values and built-ins *)

NoneStr == "<None>"
NoneInt == -1

\* dict.get(k, default)
Get(d, k, default) == IF k \in DOMAIN d THEN d[k] ELSE default

\* truth value of a string-valued field: None and '' are false
TruthyStr(s) == s # NoneStr /\ s # ""

\* the strings of the model in Python's (code point) order
StrOrder == <<"", "Able", "Baker", "Hall", "Park", "Song1", "Song2", "Song3",
              "Tour1", "Tour2", "a1", "a2", "a3", "c1", "c2", "c9", "v1", "v2", "v9">>

StrRank(s) == CHOOSE i \in 1..Len(StrOrder) : StrOrder[i] = s

StrLess(s, t) == StrRank(s) < StrRank(t)

\* the characters of dates, in code point order
Chars == <<"-", "0", "1", "2", "3", "4", "5", "6", "7", "8", "9", "a", "b", "c", "d">>

CharCode(c) == CHOOSE i \in 1..Len(Chars) : Chars[i] = c

Digits == {"0", "1", "2", "3", "4", "5", "6", "7", "8", "9"}

DigitVal(c) == CharCode(c) - 2

\* s < t for two dates (str comparison, character by character)
DateLess(s, t) ==
    \E i \in 1..Len(t) :
        /\ \A j \in 1..(i - 1) : j <= Len(s) /\ s[j] = t[j]
        /\ \/ i = Len(s) + 1
           \/ i <= Len(s) /\ CharCode(s[i]) < CharCode(t[i])

\* date_str[:4]
Prefix4(s) == SubSeq(s, 1, IF Len(s) < 4 THEN Len(s) ELSE 4)

\* int(s) raises ValueError unless s is digits with an optional leading sign
IntRaises(s) ==
    LET body == IF Len(s) > 0 /\ s[1] = "-" THEN Tail(s) ELSE s
    IN  Len(body) = 0 \/ \E i \in 1..Len(body) : body[i] \notin Digits

\* int(s) where it does not raise
IntOf(s) ==
    LET neg  == Len(s) > 0 /\ s[1] = "-"
        body == IF neg THEN Tail(s) ELSE s
        val[i \in 0..Len(body)] ==
            IF i = 0 THEN 0 ELSE 10 * val[i - 1] + DigitVal(body[i])
    IN  IF neg THEN 0 - val[Len(body)] ELSE val[Len(body)]

\* ', '.join(names) raises TypeError when an item is None
JoinRaises(names) == \E i \in 1..Len(names) : names[i] = NoneStr

\* ', '.join(names)
Join(names) ==
    LET acc[i \in 0..Len(names)] ==
            IF i = 0 THEN ""
            ELSE IF i = 1 THEN names[1]
            ELSE acc[i - 1] \o ", " \o names[i]
    IN  acc[Len(names)]

\* sorted(s, key=...), where less[i][j] is key(s[i]) < key(s[j]): a stable
\* sort, every item goes behind the items already placed that are not greater
Sorted(s, less) ==
    LET Insert(order, i) ==
            LET p == Cardinality({k \in 1..Len(order) : ~less[i][order[k]]})
            IN  SubSeq(order, 1, p) \o <<i>> \o SubSeq(order, p + 1, Len(order))
        ins[i \in 0..Len(s)] ==
            IF i = 0 THEN <<>> ELSE Insert(ins[i - 1], i)
    IN  [k \in 1..Len(s) |-> s[ins[Len(s)][k]]]

\* [f(x) for x in s]
Map(s, f(_)) == [i \in 1..Len(s) |-> f(s[i])]

\* s[:n]
Take(s, n) == SubSeq(s, 1, IF Len(s) < n THEN Len(s) ELSE n)

\* the keys of an insertion-ordered dict
Keys(d) == {d[i].k : i \in 1..Len(d)}

\* d[key], for a key of d
Lookup(d, key) == d[CHOOSE i \in 1..Len(d) : d[i].k = key].v

\* d[key] = value: a new key goes to the end, an old key keeps its place
Store(d, key, value) ==
    IF key \in Keys(d)
    THEN [i \in 1..Len(d) |-> IF d[i].k = key THEN [k |-> key, v |-> value] ELSE d[i]]
    ELSE Append(d, [k |-> key, v |-> value])

\* d[key] += 1 on a defaultdict(int)
Incr(d, key) ==
    Store(d, key, (IF key \in Keys(d) THEN Lookup(d, key) ELSE 0) + 1)

\* d.get(key, 0) on a dict of counts
Count(d, key) == IF key \in Keys(d) THEN Lookup(d, key) ELSE 0

\* d[outer][inner] += 1 on a defaultdict of defaultdict(int)
Incr2(d, outer, inner) ==
    Store(d, outer, Incr(IF outer \in Keys(d) THEN Lookup(d, outer) ELSE <<>>, inner))

---------------------------------------------------------------------------
(* 1. The concert list *)

PrimaryRoles == {"headliner", "festival_performer"}

\* [a for a in artists if a.get('role') in ['headliner', 'festival_performer']]
PrimaryArtists(data) ==
    SelectSeq(Get(data, "artists", <<>>),
              LAMBDA a : Get(a, "role", NoneStr) \in PrimaryRoles)

ArtistNameOf(a) == Get(a, "artist_name", "")

\* the entry of one concert in concerts_list
ConcertEntry(doc) ==
    [id         |-> doc.k,
     date       |-> Get(doc.v, "date", <<>>),
     artists    |-> Join(Map(PrimaryArtists(doc.v), ArtistNameOf)),
     hasSetlist |-> FALSE]

\* the join of line 60 raises for this concert
ConcertEntryRaises(doc) == JoinRaises(Map(PrimaryArtists(doc.v), ArtistNameOf))

---------------------------------------------------------------------------
(* 2. Concert details *)

\* setlists_by_concert: the setlists of known concerts, grouped by concert_id
GroupSetlists(setlists, concerts) ==
    LET grp[i \in 0..Len(setlists)] ==
            IF i = 0 THEN <<>>
            ELSE LET cid  == Get(setlists[i], "concert_id", NoneStr)
                     sofar == grp[i - 1]
                 IN  IF TruthyStr(cid) /\ cid \in Keys(concerts)
                     THEN Store(sofar, cid,
                                Append(IF cid \in Keys(sofar) THEN Lookup(sofar, cid) ELSE <<>>,
                                       setlists[i]))
                     ELSE sofar
    IN  grp[Len(setlists)]

\* song_obj
FormatSong(song) ==
    [position |-> Get(song, "position", 0),
     name     |-> Get(song, "name", ""),
     set_name |-> Get(song, "set_name", ""),
     encore   |-> Get(song, "encore", 0),
     is_cover |-> Get(song, "is_cover", FALSE)]

FormatSongs(setlist) == Map(Get(setlist, "songs", <<>>), FormatSong)

\* artist_roles: artist_name -> role, a later entry of the same name wins
ArtistRoles(data) ==
    LET artists == Get(data, "artists", <<>>)
        m[i \in 0..Len(artists)] ==
            IF i = 0 THEN <<>>
            ELSE Store(m[i - 1], Get(artists[i], "artist_name", NoneStr),
                       Get(artists[i], "role", "headliner"))
    IN  m[Len(artists)]

\* artist_roles.get(s.get('artist_name'), 'headliner')
RoleOfSetlist(roles, s) ==
    LET name == Get(s, "artist_name", NoneStr)
    IN  IF name \in Keys(roles) THEN Lookup(roles, name) ELSE "headliner"

\* role_priority.get(role, 2)
RolePriority(role) == IF role = "opener" THEN 1 ELSE 2

\* SetlistKeyLess without the role priority
SetlistKeyLessByName(roles, s, t) ==
    StrLess(Get(s, "artist_name", ""), Get(t, "artist_name", ""))

\* the sort key of line 187 of s is less than that of t
SetlistKeyLess(roles, s, t) ==
    LET ps == RolePriority(RoleOfSetlist(roles, s))
        pt == RolePriority(RoleOfSetlist(roles, t))
    IN  \/ ps < pt
        \/ ps = pt /\ StrLess(Get(s, "artist_name", ""), Get(t, "artist_name", ""))

\* sorted_setlists
SortSetlists(data, setlist_list) ==
    LET roles == ArtistRoles(data)
    IN  Sorted(setlist_list,
               [i \in 1..Len(setlist_list) |-> [j \in 1..Len(setlist_list) |->
                   SetlistKeyLess(roles, setlist_list[i], setlist_list[j])]])

\* obj, with a tour_name key when the setlist has a tour name
WithTourName(obj, setlist) ==
    IF TruthyStr(Get(setlist, "tour_name", NoneStr))
    THEN obj @@ ("tour_name" :> setlist.tour_name)
    ELSE obj

\* setlist_obj
SetlistObj(roles, s) ==
    WithTourName([artist_name |-> Get(s, "artist_name", NoneStr),
                  artist_role |-> RoleOfSetlist(roles, s),
                  song_count  |-> Get(s, "song_count", 0),
                  has_encore  |-> Get(s, "has_encore", FALSE),
                  songs       |-> FormatSongs(s)], s)

\* tour_names: the tour names of the setlists that have one
TourNames(setlist_list) ==
    {setlist_list[i].tour_name : i \in
        {j \in 1..Len(setlist_list) : TruthyStr(Get(setlist_list[j], "tour_name", NoneStr))}}

\* the concert-level tour_name of the multi-setlist shape
WithCommonTour(obj, setlist_list) ==
    LET tour_names == TourNames(setlist_list)
    IN  IF Cardinality(tour_names) = 1
        THEN obj @@ ("tour_name" :> CHOOSE t \in tour_names : TRUE)
        ELSE obj

\* sum of song_count over a list of setlists
SumSongCount(setlist_list) ==
    LET sum[i \in 0..Len(setlist_list)] ==
            IF i = 0 THEN 0 ELSE sum[i - 1] + Get(setlist_list[i], "song_count", 0)
    IN  sum[Len(setlist_list)]

\* total += song_count raises TypeError on a None song_count
SumSongCountRaises(setlist_list) ==
    \E i \in 1..Len(setlist_list) : Get(setlist_list[i], "song_count", 0) = NoneInt

\* the fields every concert detail has
DetailBase(concert_id, data) ==
    [id      |-> concert_id,
     date    |-> Get(data, "date", <<>>),
     artists |-> Map(Get(data, "artists", <<>>),
                     LAMBDA a : [name |-> Get(a, "artist_name", ""),
                                 role |-> Get(a, "role", "")])]

\* concert_detail: the single-setlist or the multi-setlist shape
ConcertDetail(concert_id, data, setlist_list) ==
    IF Len(setlist_list) = 1
    THEN WithTourName(DetailBase(concert_id, data) @@
                      [song_count |-> Get(setlist_list[1], "song_count", 0),
                       has_encore |-> Get(setlist_list[1], "has_encore", FALSE),
                       songs      |-> FormatSongs(setlist_list[1])],
                      setlist_list[1])
    ELSE LET roles  == ArtistRoles(data)
             sorted == SortSetlists(data, setlist_list)
         IN  WithCommonTour(DetailBase(concert_id, data) @@
                            [setlists         |-> Map(sorted, LAMBDA s : SetlistObj(roles, s)),
                             total_song_count |-> SumSongCount(sorted),
                             has_encore       |-> \E i \in 1..Len(sorted) :
                                                      Get(sorted[i], "has_encore", FALSE)],
                            setlist_list)

\* building the detail of a concert raises (line 223)
ConcertDetailRaises(setlist_list) ==
    Len(setlist_list) # 1 /\ SumSongCountRaises(setlist_list)

\* WriteFile with the file opened in mode 'a'
WriteFileAppend(dir, name, doc) ==
    [n \in DOMAIN dir \cup {name} |->
        IF n = name
        THEN (IF name \in DOMAIN dir THEN dir[name] ELSE <<>>) \o <<doc>>
        ELSE dir[n]]

\* open(path, 'w') and json.dump(doc): the file holds exactly doc
WriteFile(dir, name, doc) ==
    [n \in DOMAIN dir \cup {name} |-> IF n = name THEN <<doc>> ELSE dir[n]]

\* CleanupStale without the unlink
CleanupStaleKeep(dir, ids) == dir

\* the stale-file cleanup: unlink every detail file whose stem is not a key
CleanupStale(dir, ids) == [n \in DOMAIN dir \cap ids |-> dir[n]]

\* UpdateFlags without the update
UpdateFlagsNever(concerts_list, ids) == concerts_list

\* concerts_list with the hasSetlist flags set from setlists_by_concert
UpdateFlags(concerts_list, ids) ==
    [i \in 1..Len(concerts_list) |->
        IF concerts_list[i].id \in ids
        THEN [concerts_list[i] EXCEPT !.hasSetlist = TRUE]
        ELSE concerts_list[i]]

---------------------------------------------------------------------------
(* 3, 4. The artist and venue indexes *)

TopN == 10

\* the concatenation of a sequence of sequences
Flatten(ss) ==
    LET cat[i \in 0..Len(ss)] == IF i = 0 THEN <<>> ELSE cat[i - 1] \o ss[i]
    IN  cat[Len(ss)]

\* a defaultdict(int) counting the true (non-empty, non-None) ids of a list
CountIds(ids) ==
    LET cnt[i \in 0..Len(ids)] ==
            IF i = 0 THEN <<>>
            ELSE IF TruthyStr(ids[i]) THEN Incr(cnt[i - 1], ids[i]) ELSE cnt[i - 1]
    IN  cnt[Len(ids)]

\* artist_names_map: artist id -> canonical_name
ArtistNamesMap(artist_docs) ==
    Map(artist_docs, LAMBDA d : [k |-> d.k, v |-> Get(d.v, "canonical_name", "")])

\* ArtistConcertCounts that counts headliners and festival performers only
ArtistConcertCountsPrimary(concerts) ==
    CountIds(Flatten(Map(concerts, LAMBDA c :
        Map(PrimaryArtists(c.v), LAMBDA a : Get(a, "artist_id", NoneStr)))))

\* artist_concert_counts: one per entry of a concert's artist list, any role
ArtistConcertCounts(concerts) ==
    CountIds(Flatten(Map(concerts, LAMBDA c :
        Map(Get(c.v, "artists", <<>>), LAMBDA a : Get(a, "artist_id", NoneStr)))))

\* venue_concert_counts
VenueConcertCounts(concerts) ==
    CountIds(Map(concerts, LAMBDA c : Get(c.v, "venue_id", NoneStr)))

\* x sorts before y under key (-concert_count, name)
IndexLess(x, y) ==
    \/ x.concert_count > y.concert_count
    \/ x.concert_count = y.concert_count /\ StrLess(x.name, y.name)

\* the list written to artists.json and to venues.json: the entities with a
\* positive count, sorted by count descending, then by name
IndexList(names_map, counts) ==
    LET counted == SelectSeq(Map(names_map, LAMBDA e : [id            |-> e.k,
                                                        name          |-> e.v,
                                                        concert_count |-> Count(counts, e.k)]),
                             LAMBDA x : x.concert_count > 0)
    IN  Sorted(counted, [i \in 1..Len(counted) |-> [j \in 1..Len(counted) |->
                            IndexLess(counted[i], counted[j])]])

ArtistsList(names_map, concerts) == IndexList(names_map, ArtistConcertCounts(concerts))

\* venue_data_map, reduced to the canonical name
VenueDataMap(venue_docs) ==
    Map(venue_docs, LAMBDA d : [k |-> d.k, v |-> Get(d.v, "canonical_name", "")])

VenuesList(venue_map, concerts) == IndexList(venue_map, VenueConcertCounts(concerts))

---------------------------------------------------------------------------
(* 5. Statistics *)

\* the dates that reach int(date_str[:4])
YearDates(concerts) ==
    SelectSeq(Map(concerts, LAMBDA c : Get(c.v, "date", <<>>)), LAMBDA d : Len(d) >= 4)

\* int(date_str[:4]) raises ValueError for some concert
YearRaises(concerts) ==
    \E i \in 1..Len(YearDates(concerts)) : IntRaises(Prefix4(YearDates(concerts)[i]))

\* concerts_by_year: [year, count], sorted by year descending
ConcertsByYear(concerts) ==
    LET dates == YearDates(concerts)
        cnt[i \in 0..Len(dates)] ==
            IF i = 0 THEN <<>> ELSE Incr(cnt[i - 1], IntOf(Prefix4(dates[i])))
        years == cnt[Len(dates)]
    IN  Map(Sorted(years, [i \in 1..Len(years) |-> [j \in 1..Len(years) |->
                              years[i].k > years[j].k]]),
            LAMBDA e : [year |-> e.k, count |-> e.v])

TopList(index) == Map(Take(index, TopN), LAMBDA x : [name |-> x.name, count |-> x.concert_count])

\* stats
Stats(concerts, ids, setlists, artists, venues, now) ==
    [total_concerts         |-> Len(SelectSeq(concerts, LAMBDA c : Len(Get(c.v, "date", <<>>)) > 0)),
     concerts_with_setlists |-> Cardinality(ids),
     total_songs            |-> SumSongCount(setlists),
     total_artists          |-> Len(artists),
     total_venues           |-> Len(venues),
     top_artists            |-> TopList(artists),
     top_venues             |-> TopList(venues),
     concerts_by_year       |-> ConcertsByYear(concerts),
     generated_at           |-> now]

\* stage 5 raises: a None song_count (line 358) or a non-numeric year (line 376)
StatsRaises(concerts, setlists) == SumSongCountRaises(setlists) \/ YearRaises(concerts)

---------------------------------------------------------------------------
(* 6. Song analytics *)

MinTimes == 2

\* the setlist belongs to a loaded concert (line 414)
KnownConcert(setlist, concerts) == Get(setlist, "concert_id", NoneStr) \in Keys(concerts)

\* the primary artists of the concert of a setlist of a known concert
PrimaryOf(setlist, concerts) == PrimaryArtists(Lookup(concerts, setlist.concert_id))

\* table[artist_name][song_name] += 1 for every primary artist
CreditEach(table, primary, song_name) ==
    LET c[i \in 0..Len(primary)] ==
            IF i = 0 THEN table
            ELSE Incr2(c[i - 1], Get(primary[i], "artist_name", ""), song_name)
    IN  c[Len(primary)]

\* one iteration of the loop over the songs of a setlist (lines 424-447)
SongStep(acc, song, primary) ==
    LET song_name == Get(song, "name", "")
        position  == Get(song, "position", 0)
        encore    == Get(song, "encore", 0)
        set_name  == Get(song, "set_name", "")
    IN  IF ~TruthyStr(song_name) THEN acc
        ELSE [acc EXCEPT
                !.song_counts       = Incr(@, song_name),
                !.song_cover_counts = IF Get(song, "is_cover", FALSE)
                                      THEN Incr(@, song_name) ELSE @,
                !.opening_songs     = IF position = 1 /\ (set_name \in {"Main Set", ""} \/ encore = 0)
                                      THEN CreditEach(@, primary, song_name) ELSE @,
                !.encore_songs      = IF encore > 0
                                      THEN CreditEach(@, primary, song_name) ELSE @]

\* encore > 0 raises TypeError on a None encore (line 446)
SongStepRaises(song, primary) ==
    /\ TruthyStr(Get(song, "name", ""))
    /\ Len(primary) > 0
    /\ Get(song, "encore", 0) = NoneInt

\* [s for s in songs if s.get('encore', 0) == 0]
NonEncoreSongs(songs) == SelectSeq(songs, LAMBDA s : Get(s, "encore", 0) = 0)

\* MaxPositionStep that lets a later song of an equal key win
MaxPositionStepLast(best, song) ==
    IF Get(song, "position", 0) >= Get(best, "position", 0) THEN song ELSE best

\* max(s, key=position) keeps the current best unless a later key is greater
MaxPositionStep(best, song) ==
    IF Get(song, "position", 0) > Get(best, "position", 0) THEN song ELSE best

\* max(non_encore_songs, key=lambda s: s.get('position', 0))
MaxByPosition(s) ==
    LET best[i \in 1..Len(s)] ==
            IF i = 1 THEN s[1] ELSE MaxPositionStep(best[i - 1], s[i])
    IN  best[Len(s)]

\* the closing song of a setlist is credited to every primary artist
ClosingStep(closing, songs, primary) ==
    LET non_encore_songs == NonEncoreSongs(songs)
    IN  IF Len(non_encore_songs) = 0 THEN closing
        ELSE LET last_song_name == Get(MaxByPosition(non_encore_songs), "name", "")
             IN  IF TruthyStr(last_song_name)
                 THEN CreditEach(closing, primary, last_song_name)
                 ELSE closing

\* one iteration of the loop over the setlists (lines 410-457)
SetlistStep(acc, setlist, concerts) ==
    IF ~KnownConcert(setlist, concerts) THEN acc
    ELSE LET songs   == Get(setlist, "songs", <<>>)
             primary == PrimaryOf(setlist, concerts)
             a[i \in 0..Len(songs)] ==
                 IF i = 0 THEN acc ELSE SongStep(a[i - 1], songs[i], primary)
         IN  [a[Len(songs)] EXCEPT !.closing_songs = ClosingStep(@, songs, primary)]

\* the tables after the pass over all setlists
SongTables(setlists, concerts) ==
    LET t[i \in 0..Len(setlists)] ==
            IF i = 0
            THEN [song_counts |-> <<>>, song_cover_counts |-> <<>>,
                  opening_songs |-> <<>>, closing_songs |-> <<>>, encore_songs |-> <<>>]
            ELSE SetlistStep(t[i - 1], setlists[i], concerts)
    IN  t[Len(setlists)]

\* stage 6 raises
SongsRaises(setlists, concerts) ==
    \E i \in 1..Len(setlists) :
        /\ KnownConcert(setlists[i], concerts)
        /\ \E j \in 1..Len(Get(setlists[i], "songs", <<>>)) :
               SongStepRaises(setlists[i].songs[j], PrimaryOf(setlists[i], concerts))

\* times_as_cover > times_heard / 2, a real division
MostlyCoverFromHalf(times_as_cover, times_heard) == 2 * times_as_cover >= times_heard

MostlyCover(times_as_cover, times_heard) == 2 * times_as_cover > times_heard

\* all_songs, sorted by times_heard descending
AllSongs(tables) ==
    LET songs == Map(tables.song_counts, LAMBDA e :
                     [name            |-> e.k,
                      times_heard     |-> e.v,
                      is_mostly_cover |-> MostlyCover(Count(tables.song_cover_counts, e.k), e.v)])
    IN  Sorted(songs, [i \in 1..Len(songs) |-> [j \in 1..Len(songs) |->
                          songs[i].times_heard > songs[j].times_heard]])

\* the songs of one artist heard MinTimes or more, most frequent first
FilteredSongs(songs_dict) ==
    LET filtered == Map(SelectSeq(songs_dict, LAMBDA e : e.v >= MinTimes),
                        LAMBDA e : [song |-> e.k, times |-> e.v])
    IN  Sorted(filtered, [i \in 1..Len(filtered) |-> [j \in 1..Len(filtered) |->
                             filtered[i].times > filtered[j].times]])

\* opening/closing/encore_songs_by_artist: artists with no entry are left out
ByArtist(table) ==
    SelectSeq(Map(table, LAMBDA e : [k |-> e.k, v |-> FilteredSongs(e.v)]),
              LAMBDA e : Len(e.v) > 0)

\* songs_data
SongsData(tables) ==
    [all_songs               |-> AllSongs(tables),
     opening_songs_by_artist |-> ByArtist(tables.opening_songs),
     closing_songs_by_artist |-> ByArtist(tables.closing_songs),
     encore_songs_by_artist  |-> ByArtist(tables.encore_songs),
     total_unique_songs      |-> Len(AllSongs(tables))]

---------------------------------------------------------------------------
(* 7, 8. Venue and artist details *)

\* has_setlist as the detail pages read it: a field of the concert document
HasSetlistField(data) == Get(data, "has_setlist", FALSE)

\* x sorts before y under key date, reverse=True
DateDescLess(x, y) == DateLess(y.date, x.date)

\* list.sort(key=lambda x: x['date'], reverse=True)
SortByDateDesc(list) ==
    Sorted(list, [i \in 1..Len(list) |-> [j \in 1..Len(list) |->
                     DateDescLess(list[i], list[j])]])

\* concerts_at_venue, sorted by date descending
ConcertsAtVenue(venue_id, concerts) ==
    SortByDateDesc(
        Map(SelectSeq(concerts, LAMBDA c : Get(c.v, "venue_id", NoneStr) = venue_id),
            LAMBDA c : [id          |-> c.k,
                        date        |-> Get(c.v, "date", <<>>),
                        artists     |-> Join(Map(PrimaryArtists(c.v), ArtistNameOf)),
                        has_setlist |-> HasSetlistField(c.v)]))

\* venue_detail
VenueDetail(venue, concerts) ==
    [id            |-> venue.k,
     name          |-> venue.v,
     concert_count |-> Len(ConcertsAtVenue(venue.k, concerts)),
     concerts      |-> ConcertsAtVenue(venue.k, concerts)]

\* the loop of lines 515-552 over venue_data_map
WriteVenueDetails(dir, venue_map, concerts) ==
    LET w[i \in 0..Len(venue_map)] ==
            IF i = 0 THEN dir
            ELSE IF Len(ConcertsAtVenue(venue_map[i].k, concerts)) = 0 THEN w[i - 1]
            ELSE WriteFile(w[i - 1], venue_map[i].k, VenueDetail(venue_map[i], concerts))
    IN  w[Len(venue_map)]

\* artist_songs: per primary artist id, the play count of every song
ArtistSongs(setlists, concerts) ==
    LET CreditIds(table, primary, song_name) ==
            LET c[i \in 0..Len(primary)] ==
                    IF i = 0 THEN table
                    ELSE IF TruthyStr(Get(primary[i], "artist_id", NoneStr))
                    THEN Incr2(c[i - 1], primary[i].artist_id, song_name)
                    ELSE c[i - 1]
            IN  c[Len(primary)]
        OneSetlist(table, setlist) ==
            IF ~KnownConcert(setlist, concerts) THEN table
            ELSE LET songs == Get(setlist, "songs", <<>>)
                     a[i \in 0..Len(songs)] ==
                         IF i = 0 THEN table
                         ELSE IF TruthyStr(Get(songs[i], "name", ""))
                         THEN CreditIds(a[i - 1], PrimaryOf(setlist, concerts), songs[i].name)
                         ELSE a[i - 1]
                 IN  a[Len(songs)]
        t[i \in 0..Len(setlists)] ==
            IF i = 0 THEN <<>> ELSE OneSetlist(t[i - 1], setlists[i])
    IN  t[Len(setlists)]

\* the entry of a concert in concerts_for_artist: the first entry of the
\* artist in the concert's artist list (break)
ArtistConcertEntry(artist_id, c) ==
    LET artists == Get(c.v, "artists", <<>>)
        first   == CHOOSE i \in 1..Len(artists) :
                       /\ Get(artists[i], "artist_id", NoneStr) = artist_id
                       /\ \A j \in 1..(i - 1) : Get(artists[j], "artist_id", NoneStr) # artist_id
    IN  [id          |-> c.k,
         date        |-> Get(c.v, "date", <<>>),
         role        |-> Get(artists[first], "role", "headliner"),
         has_setlist |-> HasSetlistField(c.v)]

\* concerts_for_artist, sorted by date descending
ConcertsForArtist(artist_id, concerts) ==
    SortByDateDesc(
        Map(SelectSeq(concerts, LAMBDA c :
                \E i \in 1..Len(Get(c.v, "artists", <<>>)) :
                    Get(c.v.artists[i], "artist_id", NoneStr) = artist_id),
            LAMBDA c : ArtistConcertEntry(artist_id, c)))

\* top_songs
TopSongs(songs_dict) ==
    Map(Take(Sorted(songs_dict, [i \in 1..Len(songs_dict) |-> [j \in 1..Len(songs_dict) |->
                                    songs_dict[i].v > songs_dict[j].v]]),
             TopN),
        LAMBDA e : [name |-> e.k, times_played |-> e.v])

\* artist_detail
ArtistDetail(artist, concerts, artist_songs) ==
    [id            |-> artist.k,
     name          |-> artist.v,
     concert_count |-> Len(ConcertsForArtist(artist.k, concerts)),
     top_songs     |-> TopSongs(IF artist.k \in Keys(artist_songs)
                                THEN Lookup(artist_songs, artist.k) ELSE <<>>),
     concerts      |-> ConcertsForArtist(artist.k, concerts)]

\* the loop of lines 584-627 over artist_names_map
WriteArtistDetails(dir, names_map, concerts, artist_songs) ==
    LET w[i \in 0..Len(names_map)] ==
            IF i = 0 THEN dir
            ELSE IF Len(ConcertsForArtist(names_map[i].k, concerts)) = 0 THEN w[i - 1]
            ELSE WriteFile(w[i - 1], names_map[i].k,
                           ArtistDetail(names_map[i], concerts, artist_songs))
    IN  w[Len(names_map)]

---------------------------------------------------------------------------
(* The run of export_to_json, one action per stage *)

EmptyMem ==
    [all_concerts_data   |-> <<>>,
     concerts_list       |-> <<>>,
     setlists_by_concert |-> <<>>,
     next                |-> 1,
     artist_names_map    |-> <<>>,
     artists             |-> <<>>,
     venue_data_map      |-> <<>>,
     venues              |-> <<>>,
     tables              |-> <<>>]

\* stage 1 (lines 43-76): load the concerts and build concerts_list
LoadConcerts ==
    /\ pc \in {"idle", "done", "changed"}
    /\ runs < MaxRuns
    /\ runs' = runs + 1
    /\ startDisk' = disk
    /\ IF pc = "done"
       THEN lastDone' = [valid |-> TRUE, disk |-> disk] /\ change' = "none"
       ELSE UNCHANGED <<lastDone, change>>
    /\ IF \E i \in 1..Len(db.concerts) : ConcertEntryRaises(db.concerts[i])
       THEN pc' = "aborted" /\ mem' = EmptyMem
       ELSE /\ pc' = "group"
            /\ mem' = [EmptyMem EXCEPT !.all_concerts_data = db.concerts,
                                        !.concerts_list = Map(db.concerts, ConcertEntry)]
    /\ UNCHANGED <<db, disk, changes>>

\* stage 2 (lines 83-95): group the setlists by concert
LoadSetlists ==
    /\ pc = "group"
    /\ mem' = [mem EXCEPT !.setlists_by_concert =
                              GroupSetlists(db.setlists, mem.all_concerts_data),
                          !.next = 1]
    /\ pc' = "details"
    /\ UNCHANGED <<db, disk, runs, lastDone, change, changes, startDisk>>

\* stage 2 (lines 98-240): one iteration of the loop, one detail file
WriteDetail ==
    /\ pc = "details"
    /\ mem.next <= Len(mem.setlists_by_concert)
    /\ LET entry == mem.setlists_by_concert[mem.next]
       IN  IF ConcertDetailRaises(entry.v)
           THEN pc' = "aborted" /\ UNCHANGED <<disk, mem>>
           ELSE /\ disk' = [disk EXCEPT !.concert_details =
                               WriteFile(@, entry.k,
                                         ConcertDetail(entry.k,
                                                       Lookup(mem.all_concerts_data, entry.k),
                                                       entry.v))]
                /\ mem' = [mem EXCEPT !.next = @ + 1]
                /\ pc' = pc
    /\ UNCHANGED <<db, runs, lastDone, change, changes, startDisk>>

\* stage 2 (lines 244-256): delete the stale detail files
Cleanup ==
    /\ pc = "details"
    /\ mem.next > Len(mem.setlists_by_concert)
    /\ disk' = [disk EXCEPT !.concert_details =
                                CleanupStale(@, Keys(mem.setlists_by_concert))]
    /\ pc' = "flags"
    /\ UNCHANGED <<db, mem, runs, lastDone, change, changes, startDisk>>

\* stage 2 (lines 258-267): set the hasSetlist flags, write concerts.json
WriteConcerts ==
    /\ pc = "flags"
    /\ mem' = [mem EXCEPT !.concerts_list =
                              UpdateFlags(@, Keys(mem.setlists_by_concert))]
    /\ disk' = [disk EXCEPT !.top = WriteFile(@, "concerts.json", mem'.concerts_list)]
    /\ pc' = "artists"
    /\ UNCHANGED <<db, runs, lastDone, change, changes, startDisk>>

\* stage 3 (lines 269-306): artists.json
ExportArtists ==
    /\ pc = "artists"
    /\ mem' = [mem EXCEPT !.artist_names_map = ArtistNamesMap(db.artists),
                          !.artists = ArtistsList(ArtistNamesMap(db.artists),
                                                  mem.all_concerts_data)]
    /\ disk' = [disk EXCEPT !.top = WriteFile(@, "artists.json", mem'.artists)]
    /\ pc' = "venues"
    /\ UNCHANGED <<db, runs, lastDone, change, changes, startDisk>>

\* stage 4 (lines 308-345): venues.json
ExportVenues ==
    /\ pc = "venues"
    /\ mem' = [mem EXCEPT !.venue_data_map = VenueDataMap(db.venues),
                          !.venues = VenuesList(VenueDataMap(db.venues),
                                                mem.all_concerts_data)]
    /\ disk' = [disk EXCEPT !.top = WriteFile(@, "venues.json", mem'.venues)]
    /\ pc' = "stats"
    /\ UNCHANGED <<db, runs, lastDone, change, changes, startDisk>>

\* stage 5 (lines 347-396): stats.json
ExportStats ==
    /\ pc = "stats"
    /\ IF StatsRaises(mem.all_concerts_data, db.setlists)
       THEN pc' = "aborted" /\ UNCHANGED disk
       ELSE /\ disk' = [disk EXCEPT !.top =
                           WriteFile(@, "stats.json",
                                     Stats(mem.all_concerts_data,
                                           Keys(mem.setlists_by_concert),
                                           db.setlists, mem.artists, mem.venues, runs))]
            /\ pc' = "songs"
    /\ UNCHANGED <<db, mem, runs, lastDone, change, changes, startDisk>>

\* stage 6 (lines 398-508): songs.json
ExportSongs ==
    /\ pc = "songs"
    /\ IF SongsRaises(db.setlists, mem.all_concerts_data)
       THEN pc' = "aborted" /\ UNCHANGED <<disk, mem>>
       ELSE /\ mem' = [mem EXCEPT !.tables = SongTables(db.setlists, mem.all_concerts_data)]
            /\ disk' = [disk EXCEPT !.top =
                           WriteFile(@, "songs.json", SongsData(mem'.tables))]
            /\ pc' = "venue_details"
    /\ UNCHANGED <<db, runs, lastDone, change, changes, startDisk>>

\* stage 7 (lines 510-554): one file per venue with concerts
ExportVenueDetails ==
    /\ pc = "venue_details"
    /\ disk' = [disk EXCEPT !.venue_details =
                   WriteVenueDetails(@, mem.venue_data_map, mem.all_concerts_data)]
    /\ pc' = "artist_details"
    /\ UNCHANGED <<db, mem, runs, lastDone, change, changes, startDisk>>

\* stage 8 (lines 556-633): one file per artist with concerts
ExportArtistDetails ==
    /\ pc = "artist_details"
    /\ disk' = [disk EXCEPT !.artist_details =
                   WriteArtistDetails(@, mem.artist_names_map, mem.all_concerts_data,
                                      ArtistSongs(db.setlists, mem.all_concerts_data))]
    /\ pc' = "done"
    /\ UNCHANGED <<db, mem, runs, lastDone, change, changes, startDisk>>

---------------------------------------------------------------------------
(* Between two runs: the source collections and the output directory change *)

Between == pc = "done" /\ runs < MaxRuns /\ changes < MaxChanges

Changed(kind) ==
    /\ lastDone' = [valid |-> TRUE, disk |-> disk]
    /\ change' = kind
    /\ changes' = changes + 1
    /\ pc' = "changed"
    /\ UNCHANGED <<mem, runs, startDisk>>

\* a setlist whose concert_id matches no concert
OrphanSetlist ==
    [concert_id  |-> "c9",
     artist_name |-> "Able",
     song_count  |-> 2,
     has_encore  |-> TRUE,
     songs       |-> <<[name |-> "Song1", position |-> 1, encore |-> 0, is_cover |-> TRUE],
                       [name |-> "Song2", position |-> 1, encore |-> 1]>>]

\* a setlist of an unknown concert is added to the source
AddOrphanSetlist ==
    /\ Between
    /\ "c9" \notin Keys(db.concerts)
    /\ db' = [db EXCEPT !.setlists = Append(@, OrphanSetlist)]
    /\ Changed("orphan")
    /\ UNCHANGED disk

\* every setlist of one concert is removed from the source
RemoveSetlists ==
    /\ Between
    /\ \E c \in Keys(db.concerts) :
          /\ \E i \in 1..Len(db.setlists) : Get(db.setlists[i], "concert_id", NoneStr) = c
          /\ db' = [db EXCEPT !.setlists =
                       SelectSeq(@, LAMBDA s : Get(s, "concert_id", NoneStr) # c)]
    /\ Changed("removed")
    /\ UNCHANGED disk

StaleFile == <<[stale |-> TRUE]>>

DetailDirs == {"concert_details", "venue_details", "artist_details"}

\* a file of a detail directory is deleted from outside
DeleteFile ==
    /\ Between
    /\ \E dir \in DetailDirs : \E name \in DOMAIN disk[dir] :
          disk' = [disk EXCEPT ![dir] = [n \in DOMAIN @ \ {name} |-> @[n]]]
    /\ Changed("tamper")
    /\ UNCHANGED db

\* a file no run wrote is left in a detail directory
LeaveFile ==
    /\ Between
    /\ \E dir \in DetailDirs :
          LET name == CASE dir = "concert_details" -> "c9"
                        [] dir = "venue_details"   -> "v9"
                        [] dir = "artist_details"  -> "a3"
          IN  /\ name \notin DOMAIN disk[dir]
              /\ disk' = [disk EXCEPT ![dir] = WriteFile(@, name, [stale |-> TRUE])]
    /\ Changed("tamper")
    /\ UNCHANGED db

---------------------------------------------------------------------------
(* The sources and the output directories a first run starts from *)

D2020  == <<"2", "0", "2", "0", "-", "0", "7">>
D2019  == <<"2", "0", "1", "9">>
DShort == <<"1", "9">>
DBad   == <<"a", "b", "c", "d", "-", "0", "1">>

Headliner1 == [artist_id |-> "a1", artist_name |-> "Able", role |-> "headliner"]
Opener2    == [artist_id |-> "a2", artist_name |-> "Baker", role |-> "opener"]
Festival2  == [artist_id |-> "a2", artist_name |-> "Baker", role |-> "festival_performer"]
Opener3    == [artist_id |-> "a3", artist_name |-> "Baker", role |-> "opener"]
NoRole1    == [artist_id |-> "a1", artist_name |-> "Able"]

ArtistDocs == <<[k |-> "a1", v |-> [canonical_name |-> "Able"]],
                [k |-> "a2", v |-> [canonical_name |-> "Baker"]]>>

VenueDocs == <<[k |-> "v1", v |-> [canonical_name |-> "Park"]],
               [k |-> "v2", v |-> [canonical_name |-> "Hall"]]>>

Source(concerts, setlists) ==
    [concerts |-> concerts, setlists |-> setlists, artists |-> ArtistDocs, venues |-> VenueDocs]

Song(name, position, encore) == [name |-> name, position |-> position, encore |-> encore]

\* a setlist of two songs
PlainSetlist(concert_id) ==
    [concert_id  |-> concert_id,
     artist_name |-> "Able",
     song_count  |-> 2,
     has_encore  |-> TRUE,
     songs       |-> <<Song("Song1", 1, 0), Song("Song2", 1, 1)>>]

\* all sequences over S of a length in lens
SeqsOf(S, lens) == UNION {[1..n -> S] : n \in lens}

\* the directory of a first run: empty, or with files of earlier runs
EmptyDisk ==
    [top             |-> <<>>,
     concert_details |-> <<>>,
     venue_details   |-> <<>>,
     artist_details  |-> <<>>]

Leftover(names) == [n \in names |-> StaleFile]

PriorDisks ==
    {EmptyDisk,
     [EmptyDisk EXCEPT !.concert_details = Leftover({"c1", "c2", "c9"})],
     [EmptyDisk EXCEPT !.venue_details = Leftover({"v2", "v9"}),
                       !.artist_details = Leftover({"a2", "a3"})]}

\* Concerts, setlists and their links: one or two concerts, up to two
\* setlists of a known concert, of an unknown concert or of no concert
Concert1(artists) ==
    [k |-> "c1",
     v |-> IF artists = <<Headliner1>>
           THEN [date |-> D2020, venue_id |-> "v1", artists |-> artists, has_setlist |-> TRUE]
           ELSE [date |-> D2020, venue_id |-> "v1", artists |-> artists]]

Concert2Options ==
    {<<>>,
     <<[k |-> "c2", v |-> [date |-> D2019, venue_id |-> "v1", artists |-> <<Headliner1>>]]>>,
     <<[k |-> "c2", v |-> [date |-> DShort, venue_id |-> "v2",
                           artists |-> <<Opener2, Festival2>>, has_setlist |-> TRUE]]>>,
     <<[k |-> "c2", v |-> [date |-> <<>>]]>>}

NoConcertSetlist ==
    [artist_name |-> "Baker", song_count |-> 1, songs |-> <<Song("Song1", 1, 0)>>]

LinkSources ==
    {Source(<<Concert1(a)>> \o c2, sl) :
        a \in {<<Headliner1>>, <<Opener2, Headliner1>>, <<Headliner1, Headliner1>>, <<Opener3>>},
        c2 \in Concert2Options,
        sl \in SeqsOf({PlainSetlist("c1"), PlainSetlist("c2"), PlainSetlist("c9"),
                       NoConcertSetlist}, 0..2)}

\* Several setlists of one concert: artist names, roles and tour names
BillSetlist(name, tour) ==
    [concert_id |-> "c1", song_count |-> 1, songs |-> <<Song("Song1", 1, 0)>>]
        @@ (IF name = NoneStr THEN <<>> ELSE [artist_name |-> name])
        @@ (IF tour = NoneStr THEN <<>> ELSE [tour_name |-> tour])

BillSetlists ==
    {BillSetlist("Able", "Tour1"), BillSetlist("Baker", "Tour1"), BillSetlist("Baker", "Tour2"),
     BillSetlist("Able", NoneStr), BillSetlist(NoneStr, "")}

BillSources ==
    {Source(<<[k |-> "c1", v |-> [date |-> D2020, venue_id |-> "v1", artists |-> a]]>>, sl) :
        a \in {<<Opener2, Headliner1>>, <<Headliner1, Opener2>>, <<Opener2, Festival2, NoRole1>>},
        sl \in SeqsOf(BillSetlists, 2..3)}

\* The songs of one setlist: positions, encore tiers, names
SongChoices ==
    {Song(n, p, e) : n \in {"Song1", "Song2"}, p \in {1, 2}, e \in {0, 1}}
        \cup {Song("", 2, 0), [name |-> "Song3"]}

SongSources ==
    {Source(<<[k |-> "c1", v |-> [date |-> D2020, venue_id |-> "v1", artists |-> a]]>>,
            <<[concert_id |-> "c1", artist_name |-> "Able", song_count |-> Len(songs),
               songs |-> songs]>> \o more) :
        a \in {<<Headliner1>>, <<Headliner1, Festival2>>},
        songs \in SeqsOf(SongChoices, 0..2),
        more \in {<<>>, <<PlainSetlist("c1")>>}}

\* One song name heard up to MaxHeard times, some of them as a cover, in a
\* setlist of a known concert; a cover in a setlist of an unknown concert
MaxHeard == 4

CoverSong(name, is_cover) == [name |-> name, position |-> 1, encore |-> 0, is_cover |-> is_cover]

CoverChoices ==
    {CoverSong("Song1", TRUE), CoverSong("Song1", FALSE), Song("Song1", 2, 0),
     CoverSong("Song2", TRUE)}

UnknownConcertCovers ==
    [concert_id |-> "c9", artist_name |-> "Able", song_count |-> 2,
     songs |-> <<CoverSong("Song1", TRUE), CoverSong("Song1", TRUE)>>]

CoverSources ==
    {Source(<<[k |-> "c1", v |-> [date |-> D2020, venue_id |-> "v1", artists |-> <<Headliner1>>]]>>,
            <<[concert_id |-> "c1", artist_name |-> "Able", song_count |-> Len(songs),
               songs |-> songs]>> \o more) :
        songs \in SeqsOf(CoverChoices, 1..MaxHeard),
        more \in {<<>>, <<UnknownConcertCovers>>}}

\* Records with a missing or malformed field
NoneNamed(role) == [artist_id |-> "a1", artist_name |-> NoneStr, role |-> role]

NoneCount == [concert_id |-> "c1", artist_name |-> "Able", song_count |-> NoneInt]

NoneEncore ==
    [concert_id |-> "c1", artist_name |-> "Able", song_count |-> 1,
     songs |-> <<[name |-> "Song1", position |-> 1, encore |-> NoneInt]>>]

MalformedSources ==
    {Source(<<[k |-> "c1", v |-> [date |-> d, venue_id |-> "v1", artists |-> a]]>>, sl) :
        d \in {D2020, DBad},
        a \in {<<Headliner1>>, <<NoneNamed("headliner")>>, <<NoneNamed("opener")>>},
        sl \in {<<PlainSetlist("c1")>>, <<NoneCount>>, <<NoneCount, PlainSetlist("c1")>>,
                <<PlainSetlist("c9"), NoneCount>>, <<NoneEncore>>}}

Init ==
    /\ \/ db \in LinkSources /\ disk \in PriorDisks
       \/ db \in BillSources \cup SongSources \cup CoverSources \cup MalformedSources
          /\ disk = EmptyDisk
    /\ pc = "idle"
    /\ mem = EmptyMem
    /\ runs = 0
    /\ changes = 0
    /\ startDisk = disk
    /\ lastDone = [valid |-> FALSE, disk |-> EmptyDisk]
    /\ change = "none"

Next ==
    \/ LoadConcerts
    \/ LoadSetlists
    \/ WriteDetail
    \/ Cleanup
    \/ WriteConcerts
    \/ ExportArtists
    \/ ExportVenues
    \/ ExportStats
    \/ ExportSongs
    \/ ExportVenueDetails
    \/ ExportArtistDetails
    \/ AddOrphanSetlist
    \/ RemoveSetlists
    \/ DeleteFile
    \/ LeaveFile

Spec == Init /\ [][Next]_vars

---------------------------------------------------------------------------
(* Two exports running at once against one output directory.  Nothing in   *)
(* the program locks the directory or the source: the steps of the two     *)
(* runs interleave at every file operation, and the source collections may *)
(* change between the reads of the two runs.  Here pc and mem hold one     *)
(* value per run; every file write is taken to be atomic.                  *)

Processes == {1, 2}

\* the stale-file filter without the stale files
StaleFilesNone(existing, ids) == {}

\* the files of existing_detail_files that the loop of lines 249-254 unlinks
StaleFiles(existing, ids) == existing \ ids

\* the memory of a run, with existing_detail_files (line 246)
RunMem == EmptyMem @@ [existing |-> {}]

RunUnchanged == <<startDisk, lastDone, change>>

\* stage 1 (lines 43-76)
RunLoadConcerts(p) ==
    /\ pc[p] = "idle"
    /\ runs' = runs + 1
    /\ IF \E i \in 1..Len(db.concerts) : ConcertEntryRaises(db.concerts[i])
       THEN pc' = [pc EXCEPT ![p] = "aborted"] /\ UNCHANGED mem
       ELSE /\ pc' = [pc EXCEPT ![p] = "group"]
            /\ mem' = [mem EXCEPT ![p] =
                          [RunMem EXCEPT !.all_concerts_data = db.concerts,
                                         !.concerts_list = Map(db.concerts, ConcertEntry)]]
    /\ UNCHANGED <<db, disk, changes, RunUnchanged>>

\* stage 2 (lines 83-95)
RunLoadSetlists(p) ==
    /\ pc[p] = "group"
    /\ mem' = [mem EXCEPT ![p].setlists_by_concert =
                              GroupSetlists(db.setlists, mem[p].all_concerts_data),
                          ![p].next = 1]
    /\ pc' = [pc EXCEPT ![p] = "details"]
    /\ UNCHANGED <<db, disk, runs, changes, RunUnchanged>>

\* stage 2 (lines 98-240): one detail file
RunWriteDetail(p) ==
    /\ pc[p] = "details"
    /\ mem[p].next <= Len(mem[p].setlists_by_concert)
    /\ LET entry == mem[p].setlists_by_concert[mem[p].next]
       IN  IF ConcertDetailRaises(entry.v)
           THEN pc' = [pc EXCEPT ![p] = "aborted"] /\ UNCHANGED <<disk, mem>>
           ELSE /\ disk' = [disk EXCEPT !.concert_details =
                               WriteFile(@, entry.k,
                                         ConcertDetail(entry.k,
                                                       Lookup(mem[p].all_concerts_data, entry.k),
                                                       entry.v))]
                /\ mem' = [mem EXCEPT ![p].next = @ + 1]
                /\ pc' = pc
    /\ UNCHANGED <<db, runs, changes, RunUnchanged>>

\* stage 2 (lines 245-246): list the detail files of the directory
RunGlob(p) ==
    /\ pc[p] = "details"
    /\ mem[p].next > Len(mem[p].setlists_by_concert)
    /\ mem' = [mem EXCEPT ![p].existing = DOMAIN disk.concert_details]
    /\ pc' = [pc EXCEPT ![p] = "cleanup"]
    /\ UNCHANGED <<db, disk, runs, changes, RunUnchanged>>

\* stage 2 (lines 248-254): unlink one stale file of the list, in the
\* directory's order; unlink raises FileNotFoundError on a file that is gone
RunUnlink(p) ==
    /\ pc[p] = "cleanup"
    /\ \E n \in StaleFiles(mem[p].existing, Keys(mem[p].setlists_by_concert)) :
           IF n \in DOMAIN disk.concert_details
           THEN /\ disk' = [disk EXCEPT !.concert_details =
                               [m \in DOMAIN @ \ {n} |-> @[m]]]
                /\ mem' = [mem EXCEPT ![p].existing = @ \ {n}]
                /\ pc' = pc
           ELSE pc' = [pc EXCEPT ![p] = "aborted"] /\ UNCHANGED <<disk, mem>>
    /\ UNCHANGED <<db, runs, changes, RunUnchanged>>

\* stage 2 (lines 258-267): after the cleanup loop, set the hasSetlist
\* flags and write concerts.json
RunWriteConcerts(p) ==
    /\ pc[p] = "cleanup"
    /\ StaleFiles(mem[p].existing, Keys(mem[p].setlists_by_concert)) = {}
    /\ mem' = [mem EXCEPT ![p].concerts_list =
                              UpdateFlags(@, Keys(mem[p].setlists_by_concert))]
    /\ disk' = [disk EXCEPT !.top = WriteFile(@, "concerts.json", mem'[p].concerts_list)]
    /\ pc' = [pc EXCEPT ![p] = "artists"]
    /\ UNCHANGED <<db, runs, changes, RunUnchanged>>

\* stage 3 (lines 269-306)
RunExportArtists(p) ==
    /\ pc[p] = "artists"
    /\ mem' = [mem EXCEPT ![p].artist_names_map = ArtistNamesMap(db.artists),
                          ![p].artists = ArtistsList(ArtistNamesMap(db.artists),
                                                     mem[p].all_concerts_data)]
    /\ disk' = [disk EXCEPT !.top = WriteFile(@, "artists.json", mem'[p].artists)]
    /\ pc' = [pc EXCEPT ![p] = "venues"]
    /\ UNCHANGED <<db, runs, changes, RunUnchanged>>

\* stage 4 (lines 308-345)
RunExportVenues(p) ==
    /\ pc[p] = "venues"
    /\ mem' = [mem EXCEPT ![p].venue_data_map = VenueDataMap(db.venues),
                          ![p].venues = VenuesList(VenueDataMap(db.venues),
                                                   mem[p].all_concerts_data)]
    /\ disk' = [disk EXCEPT !.top = WriteFile(@, "venues.json", mem'[p].venues)]
    /\ pc' = [pc EXCEPT ![p] = "stats"]
    /\ UNCHANGED <<db, runs, changes, RunUnchanged>>

\* stage 5 (lines 347-396)
RunExportStats(p) ==
    /\ pc[p] = "stats"
    /\ IF StatsRaises(mem[p].all_concerts_data, db.setlists)
       THEN pc' = [pc EXCEPT ![p] = "aborted"] /\ UNCHANGED disk
       ELSE /\ disk' = [disk EXCEPT !.top =
                           WriteFile(@, "stats.json",
                                     Stats(mem[p].all_concerts_data,
                                           Keys(mem[p].setlists_by_concert),
                                           db.setlists, mem[p].artists, mem[p].venues, runs))]
            /\ pc' = [pc EXCEPT ![p] = "songs"]
    /\ UNCHANGED <<db, mem, runs, changes, RunUnchanged>>

\* stage 6 (lines 398-508)
RunExportSongs(p) ==
    /\ pc[p] = "songs"
    /\ IF SongsRaises(db.setlists, mem[p].all_concerts_data)
       THEN pc' = [pc EXCEPT ![p] = "aborted"] /\ UNCHANGED <<disk, mem>>
       ELSE /\ mem' = [mem EXCEPT ![p].tables =
                                     SongTables(db.setlists, mem[p].all_concerts_data)]
            /\ disk' = [disk EXCEPT !.top =
                           WriteFile(@, "songs.json", SongsData(mem'[p].tables))]
            /\ pc' = [pc EXCEPT ![p] = "venue_details"]
    /\ UNCHANGED <<db, runs, changes, RunUnchanged>>

\* stage 7 (lines 510-554)
RunExportVenueDetails(p) ==
    /\ pc[p] = "venue_details"
    /\ disk' = [disk EXCEPT !.venue_details =
                   WriteVenueDetails(@, mem[p].venue_data_map, mem[p].all_concerts_data)]
    /\ pc' = [pc EXCEPT ![p] = "artist_details"]
    /\ UNCHANGED <<db, mem, runs, changes, RunUnchanged>>

\* stage 8 (lines 556-633)
RunExportArtistDetails(p) ==
    /\ pc[p] = "artist_details"
    /\ disk' = [disk EXCEPT !.artist_details =
                   WriteArtistDetails(@, mem[p].artist_names_map, mem[p].all_concerts_data,
                                      ArtistSongs(db.setlists, mem[p].all_concerts_data))]
    /\ pc' = [pc EXCEPT ![p] = "done"]
    /\ UNCHANGED <<db, mem, runs, changes, RunUnchanged>>

\* the setlists collection gains a setlist of a concert while exports run
SetlistAdded ==
    /\ changes < MaxChanges
    /\ \E c \in Keys(db.concerts) :
           db' = [db EXCEPT !.setlists = Append(@, PlainSetlist(c))]
    /\ changes' = changes + 1
    /\ UNCHANGED <<disk, pc, mem, runs, RunUnchanged>>

\* the setlists of a concert are deleted from the collection while exports run
SetlistsDeleted ==
    /\ changes < MaxChanges
    /\ \E c \in Keys(db.concerts) :
           /\ \E i \in 1..Len(db.setlists) : Get(db.setlists[i], "concert_id", NoneStr) = c
           /\ db' = [db EXCEPT !.setlists =
                        SelectSeq(@, LAMBDA s : Get(s, "concert_id", NoneStr) # c)]
    /\ changes' = changes + 1
    /\ UNCHANGED <<disk, pc, mem, runs, RunUnchanged>>

\* one or two concerts with or without a setlist; an empty directory or one
\* with detail files of an earlier run
ConcurrentSources ==
    {Source(<<Concert1(<<Headliner1>>)>> \o c2, sl) :
        c2 \in {<<>>, <<[k |-> "c2", v |-> [date |-> D2019, venue_id |-> "v1",
                                            artists |-> <<Headliner1>>]]>>},
        sl \in {<<>>, <<PlainSetlist("c1")>>, <<PlainSetlist("c2")>>}}

ConcurrentDisks ==
    {EmptyDisk, [EmptyDisk EXCEPT !.concert_details = Leftover({"c1", "c9"})]}

InitConcurrent ==
    /\ db \in ConcurrentSources
    /\ disk \in ConcurrentDisks
    /\ pc = [p \in Processes |-> "idle"]
    /\ mem = [p \in Processes |-> RunMem]
    /\ runs = 0
    /\ changes = 0
    /\ startDisk = disk
    /\ lastDone = [valid |-> FALSE, disk |-> EmptyDisk]
    /\ change = "none"

NextConcurrent ==
    \/ \E p \in Processes : RunLoadConcerts(p)
    \/ \E p \in Processes : RunLoadSetlists(p)
    \/ \E p \in Processes : RunWriteDetail(p)
    \/ \E p \in Processes : RunGlob(p)
    \/ \E p \in Processes : RunUnlink(p)
    \/ \E p \in Processes : RunWriteConcerts(p)
    \/ \E p \in Processes : RunExportArtists(p)
    \/ \E p \in Processes : RunExportVenues(p)
    \/ \E p \in Processes : RunExportStats(p)
    \/ \E p \in Processes : RunExportSongs(p)
    \/ \E p \in Processes : RunExportVenueDetails(p)
    \/ \E p \in Processes : RunExportArtistDetails(p)
    \/ SetlistAdded
    \/ SetlistsDeleted

SpecConcurrent == InitConcurrent /\ [][NextConcurrent]_vars

---------------------------------------------------------------------------
(* Properties *)

Done == pc = "done"

\* the document a file holds
Doc(file) == file[Len(file)]

ConcertsJson == Doc(disk.top["concerts.json"])

\* the setlists of the source that reference concert c
SetlistsOf(c) == SelectSeq(db.setlists, LAMBDA s : Get(s, "concert_id", NoneStr) = c)

\* the concerts of the source that at least one setlist references
ConcertsWithSetlist == {c \in Keys(db.concerts) : Len(SetlistsOf(c)) > 0}

\* a directory with generated_at of stats.json blanked
Strip(d) ==
    [d EXCEPT !.top = [n \in DOMAIN d.top |->
        IF n = "stats.json"
        THEN Map(d.top[n], LAMBDA doc : [doc EXCEPT !.generated_at = 0])
        ELSE d.top[n]]]

SameAsLastRun == Strip(disk) = Strip(lastDone.disk)

\* C1: after a completed run, whatever the directory held before, every
\* concert of the source has one entry in concerts.json, and its hasSetlist
\* is true if and only if concert_details/<id>.json exists.
C1_HasSetlistIffDetailFile ==
    Done =>
        /\ {ConcertsJson[i].id : i \in 1..Len(ConcertsJson)} = Keys(db.concerts)
        /\ \A i \in 1..Len(ConcertsJson) :
               ConcertsJson[i].hasSetlist <=> ConcertsJson[i].id \in DOMAIN disk.concert_details

\* a run that started with a detail file of a concert without setlists, and
\* with no detail file of a concert with setlists, has completed
C1_Witness ==
    /\ Done
    /\ \E c \in Keys(db.concerts) :
           c \in DOMAIN startDisk.concert_details /\ c \notin DOMAIN disk.concert_details
    /\ \E i \in 1..Len(ConcertsJson) : ConcertsJson[i].hasSetlist

\* C2: after any completed run the files of concert_details/ are exactly the
\* concerts that a setlist of the source references; a file written by one
\* run for a concert whose setlists are then all removed is gone after the
\* next run.
C2_StaleFilesCleaned ==
    Done =>
        /\ DOMAIN disk.concert_details = ConcertsWithSetlist
        /\ (lastDone.valid /\ change = "removed") =>
               \A c \in DOMAIN lastDone.disk.concert_details :
                   Len(SetlistsOf(c)) = 0 => c \notin DOMAIN disk.concert_details

\* run 1 wrote the detail file of a concert, its setlists were removed, and
\* run 2 has completed
C2_Witness ==
    /\ Done
    /\ lastDone.valid
    /\ change = "removed"
    /\ \E c \in Keys(db.concerts) :
           /\ c \in DOMAIN lastDone.disk.concert_details
           /\ lastDone.disk.concert_details[c] # StaleFile
           /\ Len(SetlistsOf(c)) = 0

\* C3: a second run against unchanged source data leaves the directory as
\* the first run left it, files and contents, except generated_at.
C3_Idempotent ==
    (Done /\ lastDone.valid /\ change = "none") => SameAsLastRun

\* a second run on an unchanged source has completed and rewritten the files
\* of all four directories
C3_Witness ==
    /\ Done
    /\ lastDone.valid
    /\ change = "none"
    /\ disk # lastDone.disk
    /\ DOMAIN disk.concert_details # {}
    /\ DOMAIN disk.venue_details # {}
    /\ DOMAIN disk.artist_details # {}

\* C4: for a fixed source, a run that starts from other prior contents of
\* the directory (a file deleted from, or left in, one of the detail
\* directories) ends with the same files and contents, except generated_at.
C4_FunctionOfSource ==
    (Done /\ lastDone.valid /\ change = "tamper") => SameAsLastRun

\* C5: adding a setlist of an unknown concert to the source changes no value
\* of any output file.
C5_OrphanChangesNothing ==
    (Done /\ lastDone.valid /\ change = "orphan") => SameAsLastRun

\* C6: no record with a missing or malformed field aborts the run.
C6_NeverAborts == pc # "aborted"

\* the detail document of a concert that has a detail file
DetailOf(c) == Doc(disk.concert_details[c])

\* the concerts whose detail file has the multi-setlist shape
MultiShape == {c \in DOMAIN disk.concert_details : "setlists" \in DOMAIN DetailOf(c)}

HasTour(s) == TruthyStr(Get(s, "tour_name", NoneStr))

\* C7: in the multi-setlist shape the concert detail has a tour_name key
\* only if every setlist of the concert carries a tour name and all of them
\* carry the same one.
C7_CommonTourOnly ==
    Done =>
        \A c \in MultiShape :
            "tour_name" \in DOMAIN DetailOf(c) =>
                \A i \in 1..Len(SetlistsOf(c)) :
                    /\ HasTour(SetlistsOf(c)[i])
                    /\ SetlistsOf(c)[i].tour_name = DetailOf(c).tour_name

\* the non-encore songs at the maximum position, as indexes of the song list
MaxNonEncore(songs) ==
    {i \in 1..Len(songs) :
        /\ Get(songs[i], "encore", 0) = 0
        /\ \A j \in 1..Len(songs) :
               Get(songs[j], "encore", 0) = 0 =>
                   Get(songs[j], "position", 0) <= Get(songs[i], "position", 0)}

Least(S) == CHOOSE i \in S : \A j \in S : i <= j

Greatest(S) == CHOOSE i \in S : \A j \in S : j <= i

\* the number of times song is credited as closing song to the artist when
\* Pick chooses among the tied songs: one per setlist of a known concert
\* and entry of the artist among the primary artists of that concert
ClosingCredits(artist_name, song, Pick(_)) ==
    LET Closes(i) ==
            LET songs == Get(db.setlists[i], "songs", <<>>)
            IN  /\ MaxNonEncore(songs) # {}
                /\ Get(songs[Pick(MaxNonEncore(songs))], "name", "") = song
        Entries(i) ==
            LET primary == SelectSeq(Get(Lookup(db.concerts, db.setlists[i].concert_id),
                                         "artists", <<>>),
                                     LAMBDA a : Get(a, "role", NoneStr) \in
                                                    {"headliner", "festival_performer"})
            IN  {j \in 1..Len(primary) : Get(primary[j], "artist_name", "") = artist_name}
    IN  Cardinality(UNION {{<<i, j>> : j \in Entries(i)} :
                           i \in {k \in 1..Len(db.setlists) :
                                      /\ Get(db.setlists[k], "concert_id", NoneStr)
                                             \in Keys(db.concerts)
                                      /\ Closes(k)}})

\* the artist names of the source and of the closing-song table
ArtistNames ==
    Keys(mem.tables.closing_songs) \cup
    UNION {{Get(db.concerts[i].v.artists[j], "artist_name", "") :
                j \in 1..Len(Get(db.concerts[i].v, "artists", <<>>))} :
           i \in 1..Len(db.concerts)}

\* the song names of the source and of the closing-song table
SongNames ==
    {n \in UNION {Keys(mem.tables.closing_songs[i].v) : i \in 1..Len(mem.tables.closing_songs)}
            \cup UNION {{Get(db.setlists[i].songs[j], "name", "") :
                             j \in 1..Len(Get(db.setlists[i], "songs", <<>>))} :
                        i \in 1..Len(db.setlists)} :
        TruthyStr(n)}

CreditedAsClosing(artist_name, song) ==
    IF artist_name \in Keys(mem.tables.closing_songs)
    THEN Count(Lookup(mem.tables.closing_songs, artist_name), song)
    ELSE 0

RoleByName(data, name) ==
    LET artists == Get(data, "artists", <<>>)
        named   == {i \in 1..Len(artists) : Get(artists[i], "artist_name", NoneStr) = name}
    IN  IF named = {} THEN "headliner" ELSE Get(artists[Greatest(named)], "role", "headliner")

\* the sort name of an emitted setlist: '' when it has no artist name
SortName(obj) == IF obj.artist_name = NoneStr THEN "" ELSE obj.artist_name

Priority(role) == IF role = "opener" THEN 1 ELSE 2

\* emitted setlist x may stand before emitted setlist y
InRoleOrder(data, x, y) ==
    LET px == Priority(RoleByName(data, x.artist_name))
        py == Priority(RoleByName(data, y.artist_name))
    IN  px < py \/ (px = py /\ StrRank(SortName(x)) <= StrRank(SortName(y)))

\* the permutations of a sequence
Orderings(s) ==
    {[i \in 1..Len(s) |-> s[p[i]]] :
        p \in {q \in [1..Len(s) -> 1..Len(s)] : \A i, j \in 1..Len(s) : q[i] = q[j] => i = j}}

\* the artists of a setlists array, in order
Billing(setlists) == Map(setlists, LAMBDA x : <<x.artist_name, x.artist_role>>)

\* C9: the setlists array of a concert with two or more setlists is in the
\* order of role priority (opener, then the other roles, the role looked up
\* by artist name in the concert), then artist name; a setlist of an opener
\* stands before every setlist of a headliner; and the array is in this
\* order, with the same sequence of artists, whatever the order of the input
\* setlists.
C9_SetlistOrder ==
    Done =>
        \A c \in MultiShape :
            LET data    == Lookup(db.concerts, c)
                emitted == DetailOf(c).setlists
            IN  /\ \A i, j \in 1..Len(emitted) :
                       i < j => InRoleOrder(data, emitted[i], emitted[j])
                /\ \A i, j \in 1..Len(emitted) :
                       (/\ RoleByName(data, emitted[i].artist_name) = "opener"
                        /\ RoleByName(data, emitted[j].artist_name) = "headliner") => i < j
                /\ \A p \in Orderings(SetlistsOf(c)) :
                       Billing(ConcertDetail(c, data, p).setlists) = Billing(emitted)

\* the input has a headliner's setlist before an opener's, and the detail
\* file has them the other way round
C9_Witness ==
    /\ Done
    /\ \E c \in MultiShape :
           LET data == Lookup(db.concerts, c)
               given == SetlistsOf(c)
           IN  /\ RoleOfSetlist(ArtistRoles(data), given[1]) = "headliner"
               /\ RoleOfSetlist(ArtistRoles(data), given[2]) = "opener"
               /\ DetailOf(c).setlists[1].artist_role = "opener"

\* the entries of the artist id in the artist lists of the loaded concerts
ArtistMemberships(artist_id) ==
    UNION {{<<i, j>> : j \in {k \in 1..Len(Get(db.concerts[i].v, "artists", <<>>)) :
                                  Get(db.concerts[i].v.artists[k], "artist_id", NoneStr) = artist_id}} :
           i \in 1..Len(db.concerts)}

\* the loaded concerts at the venue
VenueConcerts(venue_id) ==
    {i \in 1..Len(db.concerts) : Get(db.concerts[i].v, "venue_id", NoneStr) = venue_id}

ArtistsJson == Doc(disk.top["artists.json"])

VenuesJson == Doc(disk.top["venues.json"])

\* C10: concert_count of every artist of artists.json is the number of
\* entries with its id in the artist lists of the loaded concerts, any role;
\* concert_count of every venue of venues.json is the number of loaded
\* concerts at the venue; an artist or venue of the source is in its index
\* if and only if that number is positive.
C10_CountsMatchRecount ==
    Done =>
        /\ \A i \in 1..Len(ArtistsJson) :
               ArtistsJson[i].concert_count = Cardinality(ArtistMemberships(ArtistsJson[i].id))
        /\ \A i \in 1..Len(VenuesJson) :
               VenuesJson[i].concert_count = Cardinality(VenueConcerts(VenuesJson[i].id))
        /\ \A a \in Keys(db.artists) :
               (\E i \in 1..Len(ArtistsJson) : ArtistsJson[i].id = a)
                   <=> Cardinality(ArtistMemberships(a)) > 0
        /\ \A v \in Keys(db.venues) :
               (\E i \in 1..Len(VenuesJson) : VenuesJson[i].id = v)
                   <=> Cardinality(VenueConcerts(v)) > 0

\* an artist who is only ever an opener is in the index and a venue without
\* concerts is left out
C10_Witness ==
    /\ Done
    /\ \E i \in 1..Len(ArtistsJson) :
           /\ ArtistsJson[i].concert_count > 0
           /\ \A m \in ArtistMemberships(ArtistsJson[i].id) :
                  db.concerts[m[1]].v.artists[m[2]].role = "opener"
    /\ \E v \in Keys(db.venues) : \A i \in 1..Len(VenuesJson) : VenuesJson[i].id # v

SongsJson == Doc(disk.top["songs.json"])

\* the occurrences <<setlist, song>> of the song name in the setlists of
\* loaded concerts
Occurrences(name) ==
    UNION {{<<i, j>> : j \in {j \in 1..Len(Get(db.setlists[i], "songs", <<>>)) :
                                 Get(db.setlists[i].songs[j], "name", "") = name}} :
           i \in {i \in 1..Len(db.setlists) :
                      Get(db.setlists[i], "concert_id", NoneStr) \in Keys(db.concerts)}}

\* the occurrences flagged is_cover
CoverOccurrences(name) ==
    {o \in Occurrences(name) : Get(db.setlists[o[1]].songs[o[2]], "is_cover", FALSE)}

\* C11: every song of all_songs, heard N times in the setlists of loaded
\* concerts of which K as a cover, has times_heard N and is_mostly_cover
\* exactly when 2 * K > N; every song name with N > 0 is in all_songs.
C11_MostlyCoverBoundary ==
    Done =>
        /\ \A i \in 1..Len(SongsJson.all_songs) :
               LET song == SongsJson.all_songs[i]
                   N    == Cardinality(Occurrences(song.name))
                   K    == Cardinality(CoverOccurrences(song.name))
               IN  /\ song.times_heard = N
                   /\ song.is_mostly_cover <=> 2 * K > N
        /\ \A n \in SongNames :
               Cardinality(Occurrences(n)) > 0
                   => \E i \in 1..Len(SongsJson.all_songs) : SongsJson.all_songs[i].name = n

\* a song covered exactly half of the times is not flagged and a song
\* covered once more than half of the times is
C11_Witness ==
    /\ Done
    /\ \E i, j \in 1..Len(SongsJson.all_songs) :
           LET half == SongsJson.all_songs[i]
               more == SongsJson.all_songs[j]
           IN  /\ 2 * Cardinality(CoverOccurrences(half.name)) = half.times_heard
               /\ ~half.is_mostly_cover
               /\ 2 * Cardinality(CoverOccurrences(more.name)) = more.times_heard + 2
               /\ more.is_mostly_cover

\* both exports have run to their end
BothDone == \A p \in Processes : pc[p] = "done"

\* concerts.json lists the concert with a hasSetlist flag that is not the
\* existence of concert_details/<concert>.json
Corrupted(c) ==
    \E i \in 1..Len(ConcertsJson) :
        /\ ConcertsJson[i].id = c
        /\ ConcertsJson[i].hasSetlist # (c \in DOMAIN disk.concert_details)

\* the two runs grouped different sources: the concert has setlists in one
\* run's setlists_by_concert and none in the other's
SnapshotsDiffer(c) ==
    (c \in Keys(mem[1].setlists_by_concert)) # (c \in Keys(mem[2].setlists_by_concert))

\* C12: two exports running at once against one directory can both
\* complete and leave concerts.json and concert_details disagreeing on a
\* concert (C12_Witness is such an outcome), and every such outcome is one
\* where the two runs loaded sources that differ in whether that concert
\* has a setlist.
C12_CorruptionFromDifferingSnapshots ==
    BothDone => \A c \in Keys(db.concerts) : Corrupted(c) => SnapshotsDiffer(c)

\* both runs completed; concerts.json says hasSetlist = true for a concert
\* whose detail file the other run deleted
C12_Witness ==
    /\ BothDone
    /\ \E c \in Keys(db.concerts) :
           /\ Corrupted(c)
           /\ c \notin DOMAIN disk.concert_details
           /\ SnapshotsDiffer(c)

\* the entries of the concerts lists of the detail pages written by the run
DetailPageEntries ==
    UNION {UNION {{Doc(disk[dir][name]).concerts[i] : i \in 1..Len(Doc(disk[dir][name]).concerts)} :
                  name \in {n \in DOMAIN disk[dir] : "concerts" \in DOMAIN Doc(disk[dir][n])}} :
           dir \in {"venue_details", "artist_details"}}

\* C13: after a completed run, the has_setlist value of every concert listed
\* in a venue or artist detail page equals the hasSetlist value of the same
\* concert in concerts.json.
C13_SetlistFlagConsistent ==
    Done =>
        \A e \in DetailPageEntries :
            \A i \in 1..Len(ConcertsJson) :
                ConcertsJson[i].id = e.id => e.has_setlist = ConcertsJson[i].hasSetlist

\* the detail page of the name in the directory, or an empty record
DetailPage(dir, name) ==
    IF name \in DOMAIN disk[dir] THEN Doc(disk[dir][name]) ELSE <<>>

\* the entry of an index has the concert_count of its detail page, which is
\* the length of the page's concerts list
CountAgrees(entry, page) ==
    /\ "concert_count" \in DOMAIN page
    /\ page.concert_count = entry.concert_count
    /\ Len(page.concerts) = entry.concert_count

\* C14: after a completed run, every artist of artists.json has the
\* concert_count of artist_details/<artist_id>.json and the length of its
\* concerts list, and every venue of venues.json has the concert_count of
\* venue_details/<venue_id>.json.
C14_IndexAndDetailCountsAgree ==
    Done =>
        /\ \A i \in 1..Len(ArtistsJson) :
               CountAgrees(ArtistsJson[i], DetailPage("artist_details", ArtistsJson[i].id))
        /\ \A i \in 1..Len(VenuesJson) :
               CountAgrees(VenuesJson[i], DetailPage("venue_details", VenuesJson[i].id))

====
